---- MODULE Spec2Model ----
(***************************************************************************)
(* Change detection and incremental index synchronisation of the Bear      *)
(* notes vector index: the watch service (version check, file watcher,     *)
(* poll, debounce timer, guarded synchronisation pass) and the incremental *)
(* indexer (load, add, update, save).                                      *)
(*                                                                         *)
(* Text is a sequence of one-character strings so that trim() is computed. *)
(* A note's modification time is the ordinal of the database write that    *)
(* set it, so modification times strictly increase with the writes.        *)
(***************************************************************************)
EXTENDS Integers, Sequences, FiniteSets, TLC

\* ------------------------------------------------------------- bounds
MaxWrites == 2
MaxTimers == 2
MaxBurst == 2
MaxFaults == 1
MaxIntervals == 2

Ids == {"n1", "n2"}

\* (title, content) pairs a database write may store
NoteTexts == { <<<<" ">>, <<>>>>, <<<<"A">>, <<"B">>>> }

Whitespace == {" ", "\n", "\t"}

NoPos == -1

\* ------------------------------------------------------------ helpers
Max(a, b) == IF a >= b THEN a ELSE b

RECURSIVE TrimStart(_)
TrimStart(s) ==
  IF s = <<>> THEN <<>>
  ELSE IF Head(s) \in Whitespace THEN TrimStart(Tail(s)) ELSE s

RECURSIVE TrimEnd(_)
TrimEnd(s) ==
  IF s = <<>> THEN <<>>
  ELSE IF s[Len(s)] \in Whitespace THEN TrimEnd(SubSeq(s, 1, Len(s) - 1)) ELSE s

Trim(s) == TrimEnd(TrimStart(s))

\* `${title}\n${content || ''}`.trim()
TextToEmbed(title, content) == Trim(title \o <<"\n">> \o content)

\* the fresh metadata record of initializeMetadata
FreshMetadata == [lastUpdate |-> 0, indexedNotes |-> {}, lastVersion |-> 0]

\* a row of ZSFNOTE that does not exist
NoRow == [modified |-> 0, trashed |-> FALSE, title |-> <<>>, content |-> <<>>]

EmptyMap == [p \in {} |-> "n1"]

VARIABLES
  \* the Bear database (external)
  db,                    \* id -> row; modified = 0: no such row
  dbVersion,             \* PRAGMA data_version
  watchPending,          \* a chokidar 'change' event is queued
  \* module state of the watch service
  isIndexing,
  dbChangeDetected,
  pendingUpdateTimeout,  \* 0: null, else the handle of the armed timer
  timers,                \* the timers armed in the event loop
  metadata,              \* the in-memory metadata record
  \* storage
  diskMeta,              \* index_metadata.json
  diskIndex,             \* note_vectors.index: its ntotal
  diskMap,               \* note_vectors.json: position -> note id
  \* the running updateIndex / processNotes activation
  pc,
  modifiedNotes,
  i,
  index,                 \* ntotal of the loaded index
  noteIdMap,
  processedCount,
  \* history
  activePasses,          \* activations of updateIndex between flag set and finally
  unsynced,              \* a note was written after the last fetch
  burstCalls,            \* calls of scheduleUpdate in the current burst
  burstRuns,             \* calls of updateIndex by the timers of the current burst
  log,                   \* what the running pass, or else the last one, did
  updCalls,              \* the updateNoteInIndex calls on a mapped id this pass completed
  up,                    \* the process is running
  faults,                \* failed I/O operations and ends of the process so far
  proc,                  \* the process: its poll interval, watcher, database
                         \* handle, and how it ended
  interrupted            \* the batch a crash interrupted

vars == << db, dbVersion, watchPending, isIndexing, dbChangeDetected,
           pendingUpdateTimeout, timers, metadata, diskMeta, diskIndex, diskMap,
           pc, modifiedNotes, i, index, noteIdMap, processedCount,
           activePasses, unsynced, burstCalls, burstRuns, log, updCalls,
           up, interrupted, faults, proc >>

dbVars == << db, dbVersion >>
diskVars == << diskMeta, diskIndex, diskMap >>
passVars == << pc, modifiedNotes, i, index, noteIdMap, processedCount >>
crashVars == << up, interrupted, proc >>

NoLog == [outcome |-> "none", pre |-> 0, post |-> 0, ok |-> {},
          indexedPre |-> {}, indexSaved |-> FALSE, metaWritten |-> FALSE,
          followUp |-> FALSE]

NoBatch == [batch |-> {}, metaLanded |-> FALSE]

\* index_metadata.json is missing or cannot be parsed
NoFile == [missing |-> TRUE]

\* no process: nothing created, nothing exited
NotStarted == [pollInterval |-> 0, intervals |-> {}, fileWatcher |-> FALSE,
               dbOpen |-> FALSE, exit |-> "none", failed |-> "none",
               found |-> {}]

\* monitorDatabase has set up everything
Running == [NotStarted EXCEPT !.pollInterval = 1, !.intervals = {1},
                              !.fileWatcher = TRUE, !.dbOpen = TRUE]

\* the outcomes of an I/O operation after `used` more failures: it may fail
\* while the failure budget lasts
Outcomes(used) == IF faults + used < MaxFaults THEN BOOLEAN ELSE {TRUE}

Cost(ok) == IF ok THEN 0 ELSE 1

\* ------------------------------------------------- the database query
\* the rows of `rows` in ascending order of modification time
RECURSIVE SortByModified(_)
SortByModified(rows) ==
  IF rows = {} THEN <<>>
  ELSE LET first == CHOOSE r \in rows : \A q \in rows : r.modified <= q.modified
       IN <<first>> \o SortByModified(rows \ {first})

\* the query without its `ZMODIFICATIONDATE > ?` condition
FetchAllNotes(database, watermark) ==
  SortByModified({ [id |-> n, title |-> database[n].title,
                    content |-> database[n].content,
                    modified |-> database[n].modified] :
                   n \in { m \in Ids : /\ database[m].modified # 0
                                       /\ ~database[m].trashed } })

\* SELECT ... WHERE ZTRASHED = 0 AND ZMODIFICATIONDATE > ? ORDER BY ZMODIFICATIONDATE ASC
FetchModified(database, watermark) ==
  SortByModified({ [id |-> n, title |-> database[n].title,
                    content |-> database[n].content,
                    modified |-> database[n].modified] :
                   n \in { m \in Ids : /\ database[m].modified # 0
                                       /\ ~database[m].trashed
                                       /\ database[m].modified > watermark } })

\* ------------------------------------------------- the debounce timer
\* a clearTimeout that cancels nothing
ClearTimeoutNoop(ts, h) == ts

ClearTimeout(ts, h) == ts \ {h}

FreeTimer(ts) == CHOOSE t \in (1..MaxTimers) \ ts : \A u \in (1..MaxTimers) \ ts : t <= u

\* scheduleUpdate without its `if (pendingUpdateTimeout) clearTimeout(...)`
ScheduleUpdateNoCancel(ts, h) ==
  LET t == FreeTimer(ts)
  IN [timers |-> ts \cup {t}, handle |-> t]

\* scheduleUpdate: cancel the pending timer, arm a new one, keep its handle
ScheduleUpdate(ts, h) ==
  LET cleared == IF h # 0 THEN ClearTimeout(ts, h) ELSE ts
      t == FreeTimer(cleared)
  IN [timers |-> cleared \cup {t}, handle |-> t]

DoSchedule ==
  /\ Cardinality(timers) < MaxTimers
  /\ LET s == ScheduleUpdate(timers, pendingUpdateTimeout)
     IN /\ timers' = s.timers
        /\ pendingUpdateTimeout' = s.handle
  /\ IF timers = {}
     THEN burstCalls' = 1 /\ burstRuns' = 0
     ELSE /\ burstCalls' = IF burstCalls < MaxBurst THEN burstCalls + 1 ELSE burstCalls
          /\ burstRuns' = burstRuns

NoSchedule == UNCHANGED << timers, pendingUpdateTimeout, burstCalls, burstRuns >>

\* ------------------------------------------------- the version check
\* a checkDatabaseVersion that schedules whether or not a pass is running
MayScheduleAlways(indexing) == TRUE

\* the guard of checkDatabaseVersion's scheduleUpdate
MayScheduleFromCheck(indexing) == ~indexing

\* a check that also moves the watermark to the version it has seen
MetadataAfterCheckMovesWatermark(meta, currentVersion) ==
  [meta EXCEPT !.lastVersion = currentVersion, !.lastUpdate = currentVersion]

\* the record rebuilt around the new version instead of updated in place
MetadataRebuiltAfterCheck(meta, currentVersion) ==
  [FreshMetadata EXCEPT !.lastVersion = currentVersion]

\* metadata.lastVersion = currentVersion
MetadataAfterCheck(meta, currentVersion) == [meta EXCEPT !.lastVersion = currentVersion]

\* a comparison that finds every version changed
VersionAlwaysChanged(currentVersion, lastVersion) == TRUE

\* currentVersion !== metadata.lastVersion
VersionChanged(currentVersion, lastVersion) == currentVersion # lastVersion

\* a catch block that goes on as if the read had succeeded
VersionReadAssumed(readOk) == TRUE

\* the try block of checkDatabaseVersion is left by the catch when the read of
\* the pragma throws
VersionRead(readOk) == readOk

\* checkDatabaseVersion as a function of the metadata, the flag and the outcome
\* of the read: the metadata it leaves, whether it calls scheduleUpdate, and
\* what it returns (true at line 244, false at 246 and 249)
CheckEffect(meta, indexing, readOk) ==
  IF VersionRead(readOk) /\ VersionChanged(dbVersion, meta.lastVersion)
  THEN [metadata |-> MetadataAfterCheck(meta, dbVersion),
        schedule |-> MayScheduleFromCheck(indexing), ret |-> TRUE]
  ELSE [metadata |-> meta, schedule |-> FALSE, ret |-> FALSE]

\* checkDatabaseVersion; readOk: the pragma read did not throw
CheckDatabaseVersion(meta, readOk) ==
  LET r == CheckEffect(meta, isIndexing, readOk)
  IN /\ metadata' = r.metadata
     /\ IF r.schedule THEN DoSchedule ELSE NoSchedule

\* the poll interval's callback
PollTick ==
  /\ up
  /\ proc.intervals # {}
  /\ \E readOk \in Outcomes(0) :
       CheckDatabaseVersion(metadata, readOk) /\ faults' = faults + Cost(readOk)
  /\ UNCHANGED << dbVars, watchPending, isIndexing, dbChangeDetected, diskVars,
                  passVars, activePasses, unsynced, log, updCalls, crashVars >>

\* the file watcher's 'change' callback
WatchChange ==
  /\ up
  /\ proc.fileWatcher
  /\ watchPending
  /\ watchPending' = FALSE
  /\ dbChangeDetected' = TRUE
  /\ IF ~isIndexing
     THEN \E readOk \in Outcomes(0) :
            CheckDatabaseVersion(metadata, readOk) /\ faults' = faults + Cost(readOk)
     ELSE UNCHANGED << metadata, faults >> /\ NoSchedule
  /\ UNCHANGED << dbVars, isIndexing, diskVars, passVars, activePasses, unsynced,
                  log, updCalls, crashVars >>

\* ------------------------------------------------- the poll interval
\* a clearInterval that cancels nothing
ClearIntervalNoop(ivs, h) == ivs

\* clearInterval(pollInterval)
ClearInterval(ivs, h) == ivs \ {h}

\* the handle setInterval returns: not one in use, and not the stale one
FreeInterval(ivs, h) ==
  CHOOSE t \in (1..MaxIntervals) \ (ivs \cup {h}) :
    \A u \in (1..MaxIntervals) \ (ivs \cup {h}) : t <= u

\* setupPolling without its `if (pollInterval) clearInterval(pollInterval)`
SetupPollingNoClear(ivs, h) ==
  LET t == FreeInterval(ivs, h)
  IN [intervals |-> ivs \cup {t}, handle |-> t]

\* setupPolling: cancel the interval in use, arm a new one, keep its handle
SetupPolling(ivs, h) ==
  LET cleared == IF h # 0 THEN ClearInterval(ivs, h) ELSE ivs
      t == FreeInterval(cleared, h)
  IN [intervals |-> cleared \cup {t}, handle |-> t]

\* the file watcher's 'error' callback: fall back to polling
WatchError ==
  /\ up
  /\ proc.fileWatcher
  /\ faults < MaxFaults
  /\ faults' = faults + 1
  /\ LET s == SetupPolling(proc.intervals, proc.pollInterval)
     IN proc' = [proc EXCEPT !.intervals = s.intervals, !.pollInterval = s.handle]
  /\ UNCHANGED << dbVars, watchPending, isIndexing, dbChangeDetected,
                  pendingUpdateTimeout, timers, metadata, diskVars, passVars,
                  activePasses, unsynced, burstCalls, burstRuns, log, updCalls,
                  up, interrupted >>

\* ------------------------------------------------- the environment
\* Bear writes a note (new or edited)
EditNote ==
  /\ dbVersion < MaxWrites
  /\ \E n \in Ids, txt \in NoteTexts :
       \* Bear creates n1 before n2
       /\ n = "n2" => db["n1"].modified # 0
       /\ db' = [db EXCEPT ![n] = [modified |-> dbVersion + 1, trashed |-> FALSE,
                                   title |-> txt[1], content |-> txt[2]]]
  /\ dbVersion' = dbVersion + 1
  /\ unsynced' = TRUE
  /\ watchPending' \in IF proc.fileWatcher THEN {watchPending, TRUE} ELSE {watchPending}
  /\ UNCHANGED << isIndexing, dbChangeDetected, pendingUpdateTimeout, timers,
                  metadata, diskVars, passVars, activePasses, burstCalls, burstRuns,
                  log, updCalls, crashVars, faults >>

\* Bear moves a note to the trash
TrashBody ==
  /\ \E n \in Ids :
       /\ db[n].modified # 0
       /\ ~db[n].trashed
       /\ db' = [db EXCEPT ![n].trashed = TRUE, ![n].modified = dbVersion + 1]
  /\ dbVersion' = dbVersion + 1
  /\ watchPending' \in IF proc.fileWatcher THEN {watchPending, TRUE} ELSE {watchPending}
  /\ UNCHANGED << isIndexing, dbChangeDetected, pendingUpdateTimeout, timers,
                  metadata, diskVars, passVars, activePasses, unsynced, burstCalls,
                  burstRuns, log, updCalls, crashVars, faults >>

TrashNote ==
  /\ dbVersion < MaxWrites
  /\ TrashBody

\* Bear moves a note to the trash after its last edit
TrashLate ==
  /\ dbVersion = MaxWrites
  /\ TrashBody

\* the database file changes without a change of its data version
TouchFile ==
  /\ proc.fileWatcher
  /\ ~watchPending
  /\ watchPending' = TRUE
  /\ UNCHANGED << dbVars, isIndexing, dbChangeDetected, pendingUpdateTimeout,
                  timers, metadata, diskVars, passVars, activePasses, unsynced,
                  burstCalls, burstRuns, log, updCalls, crashVars, faults >>

\* ------------------------------------------------- the index mutator
\* noteIdMap[position] = noteId
MapSet(map, position, noteId) ==
  [k \in DOMAIN map \cup {position} |-> IF k = position THEN noteId ELSE map[k]]

\* delete noteIdMap[position]
MapDelete(map, position) == [k \in DOMAIN map \ {position} |-> map[k]]

\* Object.entries(noteIdMap).find(([_, id]) => id === noteId)?.[0]
\* (integer keys are enumerated in ascending order)
FindPosition(map, noteId) ==
  LET hits == { k \in DOMAIN map : map[k] = noteId }
  IN IF hits = {} THEN NoPos
     ELSE CHOOSE k \in hits : \A q \in hits : k <= q

\* an addNoteToIndex that adds a vector and maps it before it looks at the text
\* and the embedding
AddNoteToIndexAddsFirst(idx, map, noteId, title, content, embedOk) ==
  [threw |-> TextToEmbed(title, content) = <<>> \/ ~embedOk,
   error |-> IF TextToEmbed(title, content) = <<>> THEN "Empty note content"
             ELSE IF ~embedOk THEN "embedding" ELSE "none",
   index |-> idx + 1, noteIdMap |-> MapSet(map, idx, noteId), position |-> idx]

\* an addNoteToIndex that takes index.ntotal, not index.ntotal - 1, as the
\* position
AddNoteToIndexAtCount(idx, map, noteId, title, content, embedOk) ==
  IF TextToEmbed(title, content) = <<>> \/ ~embedOk
  THEN [threw |-> TRUE, error |-> "failed",
        index |-> idx, noteIdMap |-> map, position |-> NoPos]
  ELSE [threw |-> FALSE, error |-> "none", index |-> idx + 1,
        noteIdMap |-> MapSet(map, idx + 1, noteId), position |-> idx + 1]

\* addNoteToIndex; embedOk: createEmbedding did not throw
AddNoteToIndex(idx, map, noteId, title, content, embedOk) ==
  IF TextToEmbed(title, content) = <<>>
  THEN [threw |-> TRUE, error |-> "Empty note content",
        index |-> idx, noteIdMap |-> map, position |-> NoPos]
  ELSE IF ~embedOk
  THEN [threw |-> TRUE, error |-> "embedding",
        index |-> idx, noteIdMap |-> map, position |-> NoPos]
  ELSE LET ntotal == idx + 1
           position == ntotal - 1
       IN [threw |-> FALSE, error |-> "none", index |-> ntotal,
           noteIdMap |-> MapSet(map, position, noteId), position |-> position]

\* updateNoteInIndex without its `delete noteIdMap[position]`
UpdateNoteInIndexKeepsOld(idx, map, noteId, title, content, embedOk) ==
  AddNoteToIndex(idx, map, noteId, title, content, embedOk)

\* updateNoteInIndex
UpdateNoteInIndex(idx, map, noteId, title, content, embedOk) ==
  LET position == FindPosition(map, noteId)
  IN IF position = NoPos
     THEN AddNoteToIndex(idx, map, noteId, title, content, embedOk)
     ELSE AddNoteToIndex(idx, MapDelete(map, position), noteId, title, content, embedOk)

\* ------------------------------------------------- processNotes
\* the part of the pass's state that the loop of processNotes changes
CurSt == [index |-> index, noteIdMap |-> noteIdMap,
          indexedNotes |-> metadata.indexedNotes,
          processedCount |-> processedCount, ok |-> log.ok, upd |-> updCalls]

\* what a completed updateNoteInIndex on a mapped id did
UpdRecord(st, note, r) ==
  [id |-> note.id, p |-> FindPosition(st.noteIdMap, note.id),
   pStillKey |-> FindPosition(st.noteIdMap, note.id) \in DOMAIN r.noteIdMap,
   newPos |-> r.position,
   mapped |-> r.position \in DOMAIN r.noteIdMap /\ r.noteIdMap[r.position] = note.id,
   nBefore |-> st.index, nAfter |-> r.index, threw |-> r.threw]

\* a loop that counts and records a note whether or not its add or update threw
ProcessOneCountsAll(st, note, embedOk) ==
  LET r == AddNoteToIndex(st.index, st.noteIdMap, note.id,
                          note.title, note.content, embedOk)
  IN [st EXCEPT !.index = r.index, !.noteIdMap = r.noteIdMap,
                !.indexedNotes = @ \cup {note.id},
                !.processedCount = @ + 1,
                !.ok = IF r.threw THEN @ ELSE @ \cup {note.modified}]

\* one iteration of the loop of processNotes
ProcessOne(st, note, embedOk) ==
  LET isUpdate == note.id \in st.indexedNotes
      r == IF isUpdate
           THEN UpdateNoteInIndex(st.index, st.noteIdMap, note.id,
                                  note.title, note.content, embedOk)
           ELSE AddNoteToIndex(st.index, st.noteIdMap, note.id,
                               note.title, note.content, embedOk)
      upd == IF isUpdate /\ FindPosition(st.noteIdMap, note.id) # NoPos
             THEN st.upd \cup {UpdRecord(st, note, r)}
             ELSE st.upd
  IN IF r.threw
     THEN [st EXCEPT !.noteIdMap = r.noteIdMap, !.upd = upd]
     ELSE [st EXCEPT !.index = r.index, !.noteIdMap = r.noteIdMap,
                     !.indexedNotes = @ \cup {note.id},
                     !.processedCount = @ + 1,
                     !.ok = @ \cup {note.modified}, !.upd = upd]

\* a note whose addNoteToIndex reaches `await createEmbedding`
NeedsEmbedding(note) == TextToEmbed(note.title, note.content) # <<>>

\* the iterations from the k-th on that complete without an await
RECURSIVE RunSync(_, _, _)
RunSync(st, notes, k) ==
  IF k > Len(notes) \/ NeedsEmbedding(notes[k])
  THEN [st |-> st, k |-> k]
  ELSE RunSync(ProcessOne(st, notes[k], TRUE), notes, k + 1)

\* ------------------------------------------------- updateIndex
\* the guard of updateIndex: skip when a pass is in progress
UpdateIndexGuard(indexing) == indexing

\* updateIndex without its `isIndexing = true`
IndexingFlagNotSet == FALSE

\* the value updateIndex gives isIndexing once past its guard
IndexingFlagOnEntry == TRUE

\* an updateIndex that leaves the flag set when it ends
IndexingFlagKept == TRUE

\* the value the finally block and the empty-batch return give isIndexing
IndexingFlagOnExit == FALSE

\* if (modifiedNotes.length > 0)
\*   metadata.lastUpdate = Math.max(metadata.lastUpdate, lastNote.modified)
NewLastUpdate(lastUpdate, notes) ==
  IF Len(notes) > 0 THEN Max(lastUpdate, notes[Len(notes)].modified) ELSE lastUpdate

\* an updateIndex that goes on with an empty batch
EmptyBatchGoesOn(notes) == FALSE

\* if (modifiedNotes.length === 0) { isIndexing = false; return; }
EmptyBatchReturns(notes) == notes = <<>>

ResetPass ==
  /\ pc' = "idle"
  /\ modifiedNotes' = <<>>
  /\ i' = 0
  /\ index' = 0
  /\ noteIdMap' = EmptyMap
  /\ processedCount' = 0

\* a finally block that never schedules a follow-up
FollowUpNever(changeDetected) == FALSE

\* a finally block that schedules a follow-up whatever the flag says
FollowUpAlways(changeDetected) == TRUE

\* if (dbChangeDetected) scheduleUpdate(db, metadata)
FollowUpOwed(changeDetected) == changeDetected

\* the finally block of updateIndex, reached after an await
Finally(outcome, meta, lg, cost) ==
  /\ faults' = faults + cost
  /\ isIndexing' = IndexingFlagOnExit
  /\ activePasses' = activePasses - 1
  /\ metadata' = meta
  /\ log' = [lg EXCEPT !.outcome = outcome, !.post = meta.lastUpdate,
                        !.followUp = FollowUpOwed(dbChangeDetected)]
  /\ updCalls' = {}
  /\ ResetPass
  /\ IF FollowUpOwed(dbChangeDetected) THEN DoSchedule ELSE NoSchedule
  /\ UNCHANGED << dbVars, watchPending, dbChangeDetected, unsynced, crashVars >>

\* the pass goes on to its next await
Stay(nextpc, k, st, meta, lg, cost) ==
  /\ faults' = faults + cost
  /\ pc' = nextpc
  /\ i' = k
  /\ index' = st.index
  /\ noteIdMap' = st.noteIdMap
  /\ processedCount' = st.processedCount
  /\ metadata' = meta
  /\ log' = lg
  /\ updCalls' = st.upd
  /\ NoSchedule
  /\ UNCHANGED << dbVars, watchPending, isIndexing, dbChangeDetected,
                  modifiedNotes, activePasses, unsynced, crashVars >>

\* the debounce timer fires: detach the handle, call updateIndex, which runs
\* through the query up to `await initEmbedder()` or to its end
StartPass ==
  /\ up
  /\ \E t \in timers : timers' = timers \ {t}
  /\ pendingUpdateTimeout' = 0
  /\ burstCalls' = burstCalls
  /\ burstRuns' = IF burstRuns < MaxBurst THEN burstRuns + 1 ELSE burstRuns
  /\ IF UpdateIndexGuard(isIndexing)
     THEN UNCHANGED << isIndexing, dbChangeDetected, metadata, passVars,
                       activePasses, unsynced, log, updCalls, faults,
                       interrupted >>
     ELSE /\ dbChangeDetected' = FALSE
          /\ UNCHANGED metadata
          /\ \E queryOk \in Outcomes(0) :
               LET notes == FetchModified(db, metadata.lastUpdate)
                   lg == [NoLog EXCEPT !.pre = metadata.lastUpdate,
                                       !.post = metadata.lastUpdate,
                                       !.indexedPre = metadata.indexedNotes]
               IN /\ faults' = faults + Cost(queryOk)
                  /\ interrupted' = IF queryOk THEN NoBatch ELSE interrupted
                  /\ IF ~queryOk
                     THEN /\ isIndexing' = IndexingFlagOnExit
                          /\ unsynced' = FALSE
                          /\ log' = [lg EXCEPT !.outcome = "queryError"]
                          /\ UNCHANGED << passVars, activePasses, updCalls >>
                     ELSE IF EmptyBatchReturns(notes)
                     THEN /\ isIndexing' = IndexingFlagOnExit
                          /\ unsynced' = FALSE
                          /\ log' = [lg EXCEPT !.outcome = "empty"]
                          /\ UNCHANGED << passVars, activePasses, updCalls >>
                     ELSE /\ isIndexing' = IndexingFlagOnEntry
                          /\ activePasses' = activePasses + 1
                          /\ unsynced' = FALSE
                          /\ log' = [lg EXCEPT !.outcome = "running"]
                          /\ updCalls' = {}
                          \* processNotes returns 0 at once for no notes
                          /\ pc' = IF notes = <<>> THEN "writeMeta" ELSE "initEmbedder"
                          /\ modifiedNotes' = notes
                          /\ i' = 1
                          /\ index' = 0
                          /\ noteIdMap' = EmptyMap
                          /\ processedCount' = 0
  /\ UNCHANGED << dbVars, watchPending, diskVars, up, proc >>

\* a loadVectorIndex that answers a failed read with an empty index
LoadVectorIndexYieldsEmpty(readOk) == FALSE

\* loadVectorIndex: a failed read is caught, logged and thrown as
\* 'Failed to load vector index'
LoadVectorIndexThrows(readOk) == ~readOk

\* `await initEmbedder()` resolves; loadVectorIndex reads the index file and
\* awaits the read of the mapping file
InitEmbedderDone ==
  /\ up
  /\ pc = "initEmbedder"
  /\ \E readOk \in Outcomes(0) :
       IF LoadVectorIndexThrows(readOk)
       THEN Finally("loadFailed", metadata, log, Cost(readOk))
       ELSE Stay("readMap", i, [CurSt EXCEPT !.index = IF readOk THEN diskIndex ELSE 0],
                 metadata, log, Cost(readOk))
  /\ UNCHANGED diskVars

\* a saveVectorIndex whose catch block logs the error and returns
SaveVectorIndexSwallows(writeOk) == FALSE

\* saveVectorIndex: a failed write is caught, logged and thrown again
SaveVectorIndexThrows(writeOk) == ~writeOk

\* the loop runs to its next await; at its end saveVectorIndex writes the
\* index file and awaits the write of the mapping file
Continue(st, k, cost) ==
  LET r == RunSync(st, modifiedNotes, k)
      meta == [metadata EXCEPT !.indexedNotes = r.st.indexedNotes]
      lg == [log EXCEPT !.ok = r.st.ok]
  IN IF r.k <= Len(modifiedNotes)
     THEN /\ Stay("embed", r.k, r.st, meta, lg, cost)
          /\ UNCHANGED diskVars
     ELSE \E writeOk \in Outcomes(cost) :
            IF SaveVectorIndexThrows(writeOk)
            THEN /\ Finally("saveFailed", meta, lg, cost + Cost(writeOk))
                 /\ UNCHANGED diskVars
            ELSE /\ Stay("writeMap", r.k, r.st, meta, lg, cost + Cost(writeOk))
                 /\ diskIndex' = IF writeOk THEN r.st.index ELSE diskIndex
                 /\ UNCHANGED << diskMeta, diskMap >>

\* the read of the mapping file completes
ReadMapDone ==
  /\ up
  /\ pc = "readMap"
  /\ \E readOk \in Outcomes(0) :
       IF LoadVectorIndexThrows(readOk)
       THEN Finally("loadFailed", metadata, log, Cost(readOk)) /\ UNCHANGED diskVars
       ELSE Continue([CurSt EXCEPT !.noteIdMap = IF readOk THEN diskMap ELSE EmptyMap],
                     1, Cost(readOk))

\* `await createEmbedding` of the i-th note completes
EmbedDone ==
  /\ up
  /\ pc = "embed"
  /\ \E embedOk \in Outcomes(0) :
       Continue(ProcessOne(CurSt, modifiedNotes[i], embedOk), i + 1, Cost(embedOk))

\* the write of the mapping file completes; processNotes returns and
\* updateIndex advances lastUpdate and awaits the write of the metadata
WriteMapDone ==
  /\ up
  /\ pc = "writeMap"
  /\ \E writeOk \in Outcomes(0) :
       IF SaveVectorIndexThrows(writeOk)
       THEN Finally("saveFailed", metadata, log, Cost(writeOk)) /\ UNCHANGED diskVars
       ELSE /\ diskMap' = IF writeOk THEN noteIdMap ELSE diskMap
            /\ Stay("writeMeta", i, CurSt,
                    [metadata EXCEPT !.lastUpdate = NewLastUpdate(@, modifiedNotes)],
                    [log EXCEPT !.indexSaved = writeOk], Cost(writeOk))
            /\ UNCHANGED << diskMeta, diskIndex >>

\* the write of the metadata file completes
WriteMetaDone ==
  /\ up
  /\ pc = "writeMeta"
  /\ \E writeOk \in Outcomes(0) :
       IF writeOk
       THEN /\ diskMeta' = metadata
            /\ Finally("done", metadata, [log EXCEPT !.metaWritten = TRUE], 0)
            /\ UNCHANGED << diskIndex, diskMap >>
       ELSE Finally("metaFailed", metadata, log, 1) /\ UNCHANGED diskVars

\* ------------------------------------------------- start and end of the process
\* initializeMetadata: the stored record; when the file cannot be read or
\* parsed, the fresh record after writing it; a failing write of the fresh
\* record is thrown to the caller
InitializeMetadata(stored, readOk, writeOk) ==
  IF readOk /\ stored # NoFile
  THEN [threw |-> FALSE, metadata |-> stored, file |-> stored]
  ELSE IF writeOk
  THEN [threw |-> FALSE, metadata |-> FreshMetadata, file |-> FreshMetadata]
  ELSE [threw |-> TRUE, metadata |-> FreshMetadata, file |-> stored]

\* the process ends with `status`, leaving the timers `ts` and the process
\* record `p`. A write in flight may or may not have reached its file, and a
\* metadata file written in part cannot be parsed
ProcessEnds(status, ts, p) ==
  /\ up' = FALSE
  /\ proc' = [p EXCEPT !.exit = status]
  /\ diskMeta' \in IF pc = "writeMeta"
                   THEN {diskMeta, metadata, NoFile}
                   ELSE {diskMeta}
  /\ diskMap' \in IF pc = "writeMap" THEN {diskMap, noteIdMap} ELSE {diskMap}
  /\ interrupted' =
       [batch |-> { [id |-> modifiedNotes[k].id,
                     modified |-> modifiedNotes[k].modified] :
                    k \in 1..Len(modifiedNotes) },
        metaLanded |-> pc = "writeMeta" /\ diskMeta' = metadata]
  /\ isIndexing' = FALSE
  /\ dbChangeDetected' = FALSE
  /\ pendingUpdateTimeout' = 0
  /\ timers' = ts
  /\ metadata' = FreshMetadata
  /\ watchPending' = FALSE
  /\ activePasses' = 0
  /\ burstCalls' = 0
  /\ burstRuns' = 0
  /\ log' = NoLog
  /\ updCalls' = {}
  /\ ResetPass
  /\ UNCHANGED << dbVars, diskIndex, unsynced >>

\* the process is killed
Crash ==
  /\ up
  /\ faults < MaxFaults
  /\ faults' = faults + 1
  /\ ProcessEnds("killed", {}, NotStarted)


\* cleanup, on SIGINT or SIGTERM: cancel the pending timer and the poll
\* interval, close the watcher and the database, exit with status 0
Cleanup ==
  /\ up
  /\ faults < MaxFaults
  /\ faults' = faults + 1
  /\ ProcessEnds("0",
                 IF pendingUpdateTimeout # 0
                 THEN ClearTimeout(timers, pendingUpdateTimeout) ELSE timers,
                 [proc EXCEPT !.intervals =
                                 IF proc.pollInterval # 0
                                 THEN ClearInterval(@, proc.pollInterval) ELSE @,
                              !.pollInterval = 0,
                              !.fileWatcher = FALSE,
                              !.dbOpen = FALSE,
                              !.found =
                                 (IF pendingUpdateTimeout # 0 THEN {"timer"} ELSE {})
                                 \cup (IF proc.fileWatcher THEN {"watcher"} ELSE {})])

\* monitorDatabase does not come up: process.exit(1)
ExitOne(why, file, cost) ==
  /\ up' = FALSE
  /\ proc' = [NotStarted EXCEPT !.exit = "1", !.failed = why]
  /\ diskMeta' = file
  /\ faults' = faults + cost
  /\ metadata' = metadata
  /\ NoSchedule

\* monitorDatabase: load the metadata, open the database, start watcher and
\* poll, check once
Restart ==
  /\ ~up
  /\ \E metaOk \in IF diskMeta = NoFile THEN {FALSE} ELSE Outcomes(0) :
       LET c1 == IF diskMeta = NoFile THEN 0 ELSE Cost(metaOk)
       IN \E writeOk \in IF metaOk THEN {TRUE} ELSE Outcomes(c1) :
            LET m == InitializeMetadata(diskMeta, metaOk, writeOk)
                c2 == c1 + Cost(writeOk)
            IN IF m.threw
               THEN ExitOne("metadata", m.file, c2)
               ELSE \E dbOk \in Outcomes(c2) :
                      IF ~dbOk
                      THEN ExitOne("database", m.file, c2 + 1)
                      ELSE \E watchOk \in BOOLEAN :
                           \E readOk \in Outcomes(c2) :
                             /\ up' = TRUE
                             /\ proc' = [Running EXCEPT
                                          !.fileWatcher = watchOk,
                                          !.intervals = SetupPolling({}, 0).intervals,
                                          !.pollInterval = SetupPolling({}, 0).handle]
                             /\ diskMeta' = m.file
                             /\ CheckDatabaseVersion(m.metadata, readOk)
                             /\ faults' = faults + c2 + Cost(readOk)
  /\ UNCHANGED << dbVars, watchPending, isIndexing, dbChangeDetected, diskIndex,
                  diskMap, passVars, activePasses, unsynced, log, updCalls,
                  interrupted >>

\* ------------------------------------------------- the state machine
ModuleState ==
  /\ watchPending = FALSE
  /\ isIndexing = FALSE
  /\ dbChangeDetected = FALSE
  /\ pendingUpdateTimeout = 0
  /\ timers = {}
  /\ metadata = FreshMetadata
  /\ pc = "idle"
  /\ modifiedNotes = <<>>
  /\ i = 0
  /\ index = 0
  /\ noteIdMap = EmptyMap
  /\ processedCount = 0
  /\ activePasses = 0
  /\ burstCalls = 0
  /\ burstRuns = 0
  /\ log = NoLog
  /\ updCalls = {}
  /\ interrupted = NoBatch
  /\ faults = 0

\* no note has been written and the index is empty
ModuleLoaded ==
  /\ ModuleState
  /\ db = [n \in Ids |-> NoRow]
  /\ dbVersion = 0
  /\ diskIndex = 0
  /\ diskMap = EmptyMap
  /\ unsynced = FALSE

\* the databases Bear has written one note to
OneNoteDatabases ==
  { [n \in Ids |-> IF n = "n1"
                   THEN [modified |-> 1, trashed |-> FALSE,
                         title |-> txt[1], content |-> txt[2]]
                   ELSE NoRow] : txt \in NoteTexts }

\* createVectorIndex: one vector and one mapping entry, at consecutive
\* positions from 0, for every note that is not trashed and has text; it
\* writes the index and the mapping and no metadata
RECURSIVE CreateVectorIndex(_, _)
CreateVectorIndex(notes, acc) ==
  IF notes = <<>> THEN acc
  ELSE LET note == Head(notes)
       IN CreateVectorIndex(Tail(notes),
            IF TextToEmbed(note.title, note.content) # <<>>
            THEN [index |-> acc.index + 1,
                  noteIdMap |-> MapSet(acc.noteIdMap, acc.index, note.id)]
            ELSE acc)

\* the full indexer has run over a database with one note, and the watch
\* service has not been started yet
FullyIndexed ==
  /\ ModuleState
  /\ db \in OneNoteDatabases
  /\ dbVersion = 1
  /\ LET built == CreateVectorIndex(FetchAllNotes(db, 0),
                                    [index |-> 0, noteIdMap |-> EmptyMap])
     IN diskIndex = built.index /\ diskMap = built.noteIdMap
  /\ unsynced = TRUE
  /\ up = FALSE
  /\ proc = NotStarted
  /\ diskMeta = NoFile

\* the watch service has come up over an empty database and an empty index
Init ==
  /\ ModuleLoaded
  /\ up = TRUE
  /\ proc = Running
  /\ diskMeta = FreshMetadata

\* the watch service has not been started yet and has no metadata file
NotYetStarted ==
  /\ ModuleLoaded
  /\ up = FALSE
  /\ proc = NotStarted
  /\ diskMeta = NoFile

Next ==
  \/ EditNote
  \/ TrashNote
  \/ TouchFile
  \/ PollTick
  \/ WatchChange
  \/ WatchError
  \/ StartPass
  \/ InitEmbedderDone
  \/ ReadMapDone
  \/ EmbedDone
  \/ WriteMapDone
  \/ WriteMetaDone

Spec == Init /\ [][Next]_vars

NextCrash ==
  \/ Next
  \/ Crash
  \/ Cleanup
  \/ Restart

CrashSpec == NotYetStarted /\ [][NextCrash]_vars

\* the watch service when a note may still be trashed after the last edit
NextTrash ==
  \/ Next
  \/ TrashLate

TrashSpec == Init /\ [][NextTrash]_vars

\* the watch service started over an index the full indexer has built
IndexedSpec == FullyIndexed /\ [][NextCrash]_vars

\* a step of the running pass: the operation it awaits settles
PassStep ==
  \/ InitEmbedderDone
  \/ ReadMapDone
  \/ EmbedDone
  \/ WriteMapDone
  \/ WriteMetaDone

\* the watch service when every operation a pass awaits settles
LiveSpec == Init /\ [][Next]_vars /\ WF_vars(PassStep)

TypeOK ==
  /\ dbVersion \in 0..(MaxWrites + 1)
  /\ isIndexing \in BOOLEAN
  /\ pendingUpdateTimeout \in 0..MaxTimers
  /\ timers \subseteq 1..MaxTimers
  /\ pc \in {"idle", "initEmbedder", "readMap", "embed", "writeMap", "writeMeta"}
  /\ proc.exit \in {"none", "0", "1", "killed"}
  /\ proc.failed \in {"none", "metadata", "database"}
  /\ proc.intervals \subseteq 1..MaxIntervals
  /\ up => proc.intervals # {} /\ proc.dbOpen /\ proc.exit = "none"

\* ------------------------------------------------- properties
SetMax(S) == CHOOSE x \in S : \A y \in S : x >= y

IndexedOnDisk(n) == \E p \in DOMAIN diskMap : diskMap[p] = n

\* C1: at most one synchronisation pass is past the guard of updateIndex at
\* any time, also while a pass is suspended at an await.
C1_AtMostOnePass == activePasses <= 1

\* a pass is suspended at the embedding while a note was written and the
\* watcher reported it
C1_Witness ==
  /\ activePasses = 1
  /\ pc = "embed"
  /\ dbChangeDetected
  /\ unsynced

\* C2: changes are never lost. In safety form: whenever a note has been written
\* since the last fetch of a pass, something that leads to a pass is pending: an
\* armed debounce timer, a queued watcher event, a change the watcher reported
\* to the running pass, or a version the next check still sees as changed.
C2_ChangesNeverLost ==
  (up /\ unsynced) =>
    \/ timers # {}
    \/ watchPending
    \/ (isIndexing /\ dbChangeDetected)
    \/ dbVersion # metadata.lastVersion

\* C3: after every pass lastUpdate is the greatest modification time among the
\* notes the pass processed successfully, and is unchanged when it processed
\* none (a pass that did not save the index processed none).
C3_LastUpdateIsMaxProcessed ==
  /\ log.outcome \in {"done", "metaFailed"} =>
       log.post = IF log.ok = {} THEN log.pre ELSE SetMax(log.ok)
  /\ log.outcome \in {"empty", "queryError", "loadFailed", "saveFailed"} =>
       log.post = log.pre

\* C4: every non-trashed note whose modification time is at most lastUpdate
\* has a live entry in the saved position mapping (notes whose text is empty
\* after trimming, which cannot be embedded, are not asked for).
C4_WatermarkGuarantee ==
  up =>
    \A n \in Ids :
      ( /\ db[n].modified # 0
        /\ ~db[n].trashed
        /\ db[n].modified <= metadata.lastUpdate
        /\ TextToEmbed(db[n].title, db[n].content) # <<>> )
      => IndexedOnDisk(n)

\* C5: lastUpdate never decreases, over version checks and passes that succeed,
\* find nothing or fail at any step.
C5_LastUpdateMonotonic == [][metadata'.lastUpdate >= metadata.lastUpdate]_vars

\* lastUpdate has advanced and a later pass has failed
C5_Witness ==
  /\ metadata.lastUpdate > 0
  /\ log.outcome \in {"loadFailed", "saveFailed", "queryError"}
  /\ log.pre > 0

\* C6: lastUpdate advances only once index and mapping are saved; a pass that
\* fails to load or to save the index leaves lastUpdate at its value before the
\* pass and does not write the metadata; the metadata is written only after the
\* index save of the same pass succeeded.
C6_AdvanceOnlyAfterSave ==
  [][ /\ (metadata'.lastUpdate # metadata.lastUpdate) => log'.indexSaved
      /\ (diskMeta' # diskMeta) => (pc = "writeMeta" /\ log.indexSaved)
      /\ (log'.outcome \in {"loadFailed", "saveFailed"}) =>
           (metadata'.lastUpdate = log'.pre /\ diskMeta' = diskMeta) ]_vars

\* a pass added a note and then failed to save the index
C6_Witness ==
  /\ log.outcome = "saveFailed"
  /\ log.ok # {}
  /\ metadata.lastUpdate = log.pre

\* the lastUpdate the process starts from, or has started from, after a crash
PersistedLastUpdate ==
  IF up THEN metadata.lastUpdate
  ELSE InitializeMetadata(diskMeta, TRUE, TRUE).metadata.lastUpdate

Refetched(n) ==
  LET notes == FetchModified(db, PersistedLastUpdate)
  IN \E k \in 1..Len(notes) : notes[k].id = n.id

BatchRefetched ==
  \A n \in interrupted.batch :
    /\ n.modified > PersistedLastUpdate
    /\ ~db[n.id].trashed => Refetched(n)

\* C7 as stated: after a crash at any point of a pass, every note of the
\* interrupted batch is above the persisted lastUpdate and the first pass after
\* the restart fetches it again.
C7_CrashAnywhere == BatchRefetched

\* C7 as amended: the same, for a crash before the metadata write of the
\* interrupted pass has reached the file.
C7_CrashBeforeMetadataWrite == ~interrupted.metaLanded => BatchRefetched

\* restarted after a crash in the middle of a pass, before the first fetch
C7_Witness ==
  /\ up
  /\ interrupted.batch # {}
  /\ ~interrupted.metaLanded

TombstonedAndAppended(c) ==
  /\ ~c.pStillKey
  /\ c.mapped
  /\ c.newPos > c.p
  /\ c.newPos >= c.nBefore
  /\ c.nAfter > c.nBefore

\* C8 as stated: every call of updateNoteInIndex on an id mapped at p leaves p
\* out of the mapping, maps the id at a new position above p and above every
\* position assigned before, and makes the vector count grow.
C8_TombstoneOnEveryUpdate == \A c \in updCalls : TombstonedAndAppended(c)

\* C8 as amended: the same, for every such call that returns without throwing;
\* a call that throws leaves p out of the mapping too, but maps the id nowhere
\* new and leaves the vector count as it was.
C8_TombstoneOnSuccessfulUpdate ==
  \A c \in updCalls :
    IF c.threw
    THEN ~c.pStillKey /\ ~c.mapped /\ c.nAfter = c.nBefore
    ELSE TombstonedAndAppended(c)

\* an update of a mapped id has returned a new position
C8_Witness == \E c \in updCalls : ~c.threw /\ c.p # NoPos

\* C9: the calls of scheduleUpdate of one burst (each made while the timer of
\* the one before is armed) lead to exactly one call of updateIndex: while the
\* timer is armed none has been made and one timer is armed, and once it has
\* fired one has been made and no timer is left.
C9_DebounceCoalescing ==
  burstCalls >= 1 =>
    IF timers = {}
    THEN burstRuns = 1
    ELSE burstRuns = 0 /\ Cardinality(timers) = 1

\* a burst of several calls has been answered by its one pass
C9_Witness ==
  /\ burstCalls >= 2
  /\ timers = {}
  /\ burstRuns = 1

\* C10: at most one debounce timer is armed, and it is the one the handle names;
\* after the expiry the handle is null.
C10_SingleTimer ==
  /\ Cardinality(timers) <= 1
  /\ timers = IF pendingUpdateTimeout = 0 THEN {} ELSE {pendingUpdateTimeout}

\* scheduleUpdate was called again while its timer was armed
C10_Witness ==
  /\ burstCalls >= 2
  /\ timers # {}
  /\ pendingUpdateTimeout # 0

\* C11: whenever the version counter differs from metadata.lastVersion, a
\* checkDatabaseVersion that reads it sets lastVersion to the counter and returns
\* true, and calls scheduleUpdate if and only if no pass is running; the step
\* that does so leaves the timer of the handle armed, or with a pass running the
\* timers as they were.
C11_CheckDetectsChange ==
  [][ /\ (up /\ dbVersion # metadata.lastVersion) =>
           LET r == CheckEffect(metadata, isIndexing, TRUE)
           IN /\ r.metadata = [metadata EXCEPT !.lastVersion = dbVersion]
              /\ r.ret
              /\ r.schedule <=> ~isIndexing
      /\ (up /\ up' /\ metadata'.lastVersion # metadata.lastVersion) =>
           /\ metadata'.lastVersion = dbVersion
           /\ IF isIndexing
              THEN UNCHANGED << timers, pendingUpdateTimeout >>
              ELSE /\ pendingUpdateTimeout' # 0
                   /\ timers' = (timers \ {pendingUpdateTimeout})
                                   \cup {pendingUpdateTimeout'} ]_vars

\* a check has recorded a new version while a pass was running, arming nothing
C11_Witness ==
  /\ isIndexing
  /\ dbVersion = metadata.lastVersion
  /\ dbVersion > 0
  /\ unsynced
  /\ timers = {}

\* C12: whenever the version counter equals metadata.lastVersion, a
\* checkDatabaseVersion that reads it returns false, leaves the metadata as it is
\* and does not call scheduleUpdate (it touches timers and storage nowhere else).
C12_CheckUnchangedIsNoOp ==
  (up /\ dbVersion = metadata.lastVersion) =>
    LET r == CheckEffect(metadata, isIndexing, TRUE)
    IN /\ ~r.ret
       /\ r.metadata = metadata
       /\ ~r.schedule

\* the version is the recorded one while a timer is armed
C12_Witness ==
  /\ up
  /\ dbVersion = metadata.lastVersion
  /\ dbVersion > 0
  /\ timers # {}
  /\ ~isIndexing

\* C13: a pass whose query finds no document above lastUpdate writes no file,
\* leaves the metadata (lastUpdate, indexedNotes), the index and the mapping as
\* they are, and ends at once with the flag cleared.
C13_EmptyPassIsNoOp ==
  [][ ( /\ up /\ up'
        /\ timers' # timers /\ timers' \subseteq timers
        /\ ~isIndexing
        /\ FetchModified(db, metadata.lastUpdate) = <<>> )
      => ( /\ UNCHANGED << diskMeta, diskIndex, diskMap, metadata, passVars >>
           /\ ~isIndexing'
           /\ pc' = "idle" ) ]_vars

\* a pass after an earlier one has found nothing new
C13_Witness ==
  /\ log.outcome = "empty"
  /\ metadata.lastUpdate > 0
  /\ diskMap # EmptyMap

Failed(k) == modifiedNotes[k].modified \notin log.ok

\* C14: once the loop of processNotes is over, every note of the batch has been
\* attempted; the notes that failed are the blank ones and those whose embedding
\* failed, and every other note, also one after a failed one, was processed; a
\* failed note has no new entry in indexedNotes and is not counted; the index
\* has been written.
C14_PartialFailureTolerance ==
  pc = "writeMap" =>
    /\ i = Len(modifiedNotes) + 1
    /\ processedCount = Cardinality(log.ok)
    /\ Cardinality({ k \in 1..Len(modifiedNotes) :
                       Failed(k) /\ NeedsEmbedding(modifiedNotes[k]) }) <= faults
    /\ \A k \in 1..Len(modifiedNotes) :
         /\ ~NeedsEmbedding(modifiedNotes[k]) => Failed(k)
         /\ Failed(k) => ( modifiedNotes[k].id \in metadata.indexedNotes
                            <=> modifiedNotes[k].id \in log.indexedPre )
         /\ ~Failed(k) => modifiedNotes[k].id \in metadata.indexedNotes
    /\ diskIndex = index

\* the first note of a batch of two failed and the second was processed
C14_Witness ==
  /\ pc = "writeMap"
  /\ Len(modifiedNotes) = 2
  /\ Failed(1)
  /\ ~Failed(2)
  /\ processedCount = 1
  /\ modifiedNotes[1].id \notin metadata.indexedNotes

\* C15: a read of the index file or of the mapping file that fails ends the
\* pass (loadVectorIndex throws; no empty index takes the place of the one that
\* could not be read); the pass has appended no vector and written no file, and
\* lastUpdate and indexedNotes are what they were before the pass.
C15_LoadFailureEndsPass ==
  [][ /\ (up /\ up' /\ pc = "initEmbedder") => UNCHANGED << diskMeta, diskIndex, diskMap >>
      /\ ( /\ up /\ up'
           /\ pc \in {"initEmbedder", "readMap"}
           /\ pc' # pc
           /\ faults' > faults )
         => pc' = "idle" /\ ~isIndexing'
      /\ (log.outcome = "running" /\ log'.outcome = "loadFailed")
         => /\ pc \in {"initEmbedder", "readMap"}
            /\ UNCHANGED << diskMeta, diskIndex, diskMap >>
            /\ processedCount = 0
            /\ log'.ok = {}
            /\ metadata'.lastUpdate = log.pre
            /\ metadata'.indexedNotes = log.indexedPre ]_vars

\* a pass over a grown index could not load it
C15_Witness ==
  /\ log.outcome = "loadFailed"
  /\ diskIndex > 0
  /\ metadata.lastUpdate = log.pre
  /\ metadata.indexedNotes = log.indexedPre

\* C16: on the index and the mapping of every reachable state, addNoteToIndex
\* with a text that is empty after trimming throws 'Empty note content', and with
\* an embedding that fails throws too; either way the vector count and the
\* mapping it leaves are those it was given. So within a pass the index has grown
\* by the notes that succeeded only.
C16_FailedAddAddsNothing ==
  /\ \A n \in Ids, txt \in NoteTexts, embedOk \in BOOLEAN :
       LET r == AddNoteToIndex(index, noteIdMap, n, txt[1], txt[2], embedOk)
       IN /\ TextToEmbed(txt[1], txt[2]) = <<>> =>
               r.threw /\ r.error = "Empty note content"
          /\ (TextToEmbed(txt[1], txt[2]) = <<>> \/ ~embedOk) =>
               r.threw /\ r.index = index /\ r.noteIdMap = noteIdMap
  /\ pc = "embed" => index = diskIndex + processedCount

\* the adds of a pass over a grown index have all failed
C16_Witness ==
  /\ pc = "writeMap"
  /\ processedCount = 0
  /\ updCalls = {}
  /\ index > 0
  /\ index = Cardinality(DOMAIN noteIdMap)
  /\ noteIdMap = diskMap

\* C17: in every reachable state a checkDatabaseVersion whose read of the
\* counter throws returns false (it has caught the error), leaves the metadata
\* with its lastVersion as it is and does not call scheduleUpdate; a check after
\* it that reads the counter returns true exactly if the version differs.
C17_ReadFailureIsUnchanged ==
  up =>
    LET r == CheckEffect(metadata, isIndexing, FALSE)
        later == CheckEffect(r.metadata, isIndexing, TRUE)
    IN /\ ~r.ret
       /\ r.metadata = metadata
       /\ ~r.schedule
       /\ later.ret <=> dbVersion # metadata.lastVersion
       /\ later.ret => later.metadata.lastVersion = dbVersion

\* a read of the counter has failed before any pass, and the change is still
\* there to be detected
C17_Witness ==
  /\ up
  /\ faults > 0
  /\ log = NoLog
  /\ pc = "idle"
  /\ timers = {}
  /\ dbVersion # metadata.lastVersion

\* the watcher's callback runs while the version counter is the recorded one
SpuriousWatch ==
  /\ up /\ up'
  /\ watchPending /\ ~watchPending'
  /\ dbVersion = metadata.lastVersion

\* the condition under which the end of the running pass schedules a follow-up
FollowUpPending == isIndexing /\ dbChangeDetected

\* C18 as stated: a watcher notification with no change of the version counter
\* arms no timer and starts no pass, and leaves nothing behind that makes a
\* later step schedule one, whether idle or with a pass running.
C18_SpuriousWatchNeverSchedules ==
  [][ SpuriousWatch =>
        /\ UNCHANGED << timers, pendingUpdateTimeout, isIndexing, metadata,
                        diskMeta, diskIndex, diskMap, passVars >>
        /\ FollowUpPending' <=> FollowUpPending ]_vars

\* C18 as amended: such a notification arms no timer and starts no pass in its
\* own step and sets dbChangeDetected; with no pass running that is all (the next
\* pass clears the flag before it reads it), but with a pass running the end of
\* that pass schedules a follow-up, which it does exactly if the flag is set.
C18_SpuriousWatchWhenIdle ==
  [][ /\ SpuriousWatch =>
           /\ UNCHANGED << timers, pendingUpdateTimeout, isIndexing, metadata,
                           diskMeta, diskIndex, diskMap, passVars >>
           /\ dbChangeDetected'
           /\ ~isIndexing => ~FollowUpPending'
      /\ (up /\ up' /\ ~isIndexing /\ isIndexing') => ~dbChangeDetected'
      /\ (up /\ up' /\ isIndexing /\ ~isIndexing') =>
           IF dbChangeDetected
           THEN pendingUpdateTimeout' # 0 /\ timers' = {pendingUpdateTimeout'}
           ELSE UNCHANGED << timers, pendingUpdateTimeout >> ]_vars

\* the watcher has reported a change while idle and the check found none
C18_Witness ==
  /\ up
  /\ ~isIndexing
  /\ dbChangeDetected
  /\ ~watchPending
  /\ timers = {}
  /\ faults = 0
  /\ dbVersion = metadata.lastVersion

\* C19: once cleanup has run, from whatever state it was called in, the
\* process has exited with status 0 with the pending timer cancelled, the poll
\* interval cleared and the watcher and the database closed; and as long as
\* the process stays exited, no check and no indexing pass runs: the
\* in-memory state, the timers and the files on disk do not change.
ExitedClean ==
  /\ ~up
  /\ timers = {}
  /\ pendingUpdateTimeout = 0
  /\ proc.intervals = {}
  /\ ~proc.fileWatcher
  /\ ~proc.dbOpen
  /\ ~isIndexing
  /\ pc = "idle"
  /\ ~ENABLED PollTick
  /\ ~ENABLED WatchChange
  /\ ~ENABLED StartPass

C19_CleanupStopsEverything ==
  [][ /\ proc.exit = "0" => ExitedClean
      /\ proc'.exit = "0" => ExitedClean'
      /\ proc.exit = "0" /\ proc'.exit = "0" =>
           UNCHANGED << metadata, timers, pendingUpdateTimeout, isIndexing,
                        dbChangeDetected, watchPending, diskVars, passVars >>
    ]_vars

\* cleanup ran with no debounce timer pending and no file watcher set up
C19_Witness ==
  /\ proc.exit = "0"
  /\ proc.found = {}

\* C20: initializeMetadata never fails its caller: with a readable file it
\* yields the stored record, otherwise the fresh record, which it has written
\* out; the watch service never fails to start because of it.
C20_LoadNeverFailsCaller ==
  /\ proc.failed # "metadata"
  /\ \A readOk \in BOOLEAN :
       LET m == InitializeMetadata(diskMeta, readOk, TRUE)
       IN /\ ~m.threw
          /\ readOk /\ diskMeta # NoFile => m.metadata = diskMeta /\ m.file = diskMeta
          /\ ~(readOk /\ diskMeta # NoFile) =>
               m.metadata = FreshMetadata /\ m.file = FreshMetadata

\* C21: a file-watch event that arrives while a pass is running sets the
\* change flag, which only such an event sets during a pass; and when a pass
\* with the flag set finishes, whatever its outcome, the in-progress flag is
\* clear and exactly one debounce timer, the one the handle names, is armed.
C21_FollowUpAfterWatchDuringPass ==
  [][ /\ (isIndexing /\ isIndexing' /\ watchPending /\ ~watchPending')
           => dbChangeDetected'
      /\ (isIndexing /\ isIndexing' /\ ~dbChangeDetected /\ dbChangeDetected')
           => (watchPending /\ ~watchPending')
      /\ (isIndexing /\ dbChangeDetected /\ up' /\ pc' = "idle")
           => /\ ~isIndexing'
              /\ timers' = {pendingUpdateTimeout'}
              /\ pendingUpdateTimeout' # 0
    ]_vars

\* a pass that failed to save the index has ended with the flag set by the
\* watcher and has armed the follow-up timer
C21_Witness ==
  /\ log.outcome = "saveFailed"
  /\ log.followUp
  /\ ~isIndexing
  /\ timers # {}

\* C22: every pass that sets the in-progress flag clears it again, on every
\* exit path; every way a pass ends is one the code catches; and once the flag
\* is clear the scheduler is idle or has one timer armed, from where a later
\* trigger starts a new pass.
NoStuckState ==
  /\ log.outcome \in {"none", "running", "empty", "queryError", "loadFailed",
                      "saveFailed", "metaFailed", "done"}
  /\ isIndexing <=> log.outcome = "running"
  /\ isIndexing <=> pc # "idle"
  /\ ~isIndexing => \/ timers = {} /\ pendingUpdateTimeout = 0
                    \/ timers = {pendingUpdateTimeout} /\ pendingUpdateTimeout # 0

C22_PassAlwaysEnds == [](NoStuckState /\ (isIndexing => <>(~isIndexing)))

\* a pass has ended in the catch block because the metadata write failed, and
\* the in-progress flag is clear
C22_Witness ==
  /\ log.outcome = "metaFailed"
  /\ ~isIndexing
  /\ pc = "idle"

\* C23: no note id is the value of more than one entry of the position
\* mapping, in the mapping file and in the mapping a pass works on.
OnePositionPerId(map) ==
  \A p, q \in DOMAIN map : map[p] = map[q] => p = q

C23_UniqueLivePosition ==
  /\ OnePositionPerId(diskMap)
  /\ OnePositionPerId(noteIdMap)

\* C24: a note that has an entry in the position mapping never loses its
\* last entry: no step takes a note id out of the mapping file.
C24_NeverDisappears ==
  [][ \A n \in Ids : IndexedOnDisk(n) => IndexedOnDisk(n)' ]_vars

\* C25: while a pass is in progress no debounce timer is armed and the handle
\* is null, so no timer can fire and find the in-progress flag set: the
\* skipping branch of updateIndex is never taken.
C25_NoTimerDuringPass ==
  isIndexing => /\ timers = {}
                /\ pendingUpdateTimeout = 0
                /\ ~ENABLED StartPass

\* during a pass a note was written and a version check has seen the new
\* version without arming a timer
C25_Witness ==
  /\ isIndexing
  /\ unsynced
  /\ metadata.lastVersion = dbVersion
  /\ timers = {}

\* C26: a version check or a file-watch event, whether or not a pass is
\* running, changes neither the index file, the mapping file, the metadata
\* file, the index and mapping a pass works on, the position of the pass, nor
\* lastUpdate and indexedNotes of the metadata; of the metadata a check changes
\* lastVersion only.
CheckOrWatchStep ==
  /\ up /\ up'
  /\ \/ watchPending /\ ~watchPending'
     \/ metadata'.lastVersion # metadata.lastVersion

C26_ChecksAreReadOnly ==
  [][ /\ CheckOrWatchStep =>
           /\ UNCHANGED << diskIndex, diskMap, diskMeta, passVars, isIndexing >>
           /\ metadata'.lastUpdate = metadata.lastUpdate
           /\ metadata'.indexedNotes = metadata.indexedNotes
      /\ \A indexing, readOk \in BOOLEAN :
           LET r == CheckEffect(metadata, indexing, readOk)
           IN /\ r.metadata.lastUpdate = metadata.lastUpdate
              /\ r.metadata.indexedNotes = metadata.indexedNotes
    ]_vars

\* a pass is suspended at an embedding; meanwhile the watcher has set the
\* change flag and a poll tick has taken over the new version
C26_Witness ==
  /\ pc = "embed"
  /\ dbChangeDetected
  /\ ~watchPending
  /\ dbVersion > log.pre
  /\ metadata.lastVersion = dbVersion
  /\ metadata.lastUpdate = log.pre

\* C27: a successful addNoteToIndex, on the index and mapping of any reachable
\* state, appends exactly one vector, returns the count before the append
\* (the count after it minus one), maps that position to the note id and
\* leaves every other entry of the mapping as it was.
AddedExactlyOne(idx, map, noteId, r) ==
  /\ r.index = idx + 1
  /\ r.position = idx
  /\ r.position = r.index - 1
  /\ DOMAIN r.noteIdMap = DOMAIN map \cup {r.position}
  /\ r.noteIdMap[r.position] = noteId
  /\ \A k \in DOMAIN map \ {r.position} : r.noteIdMap[k] = map[k]

C27_SuccessfulAddAppendsOne ==
  \A st \in { [index |-> index, noteIdMap |-> noteIdMap],
              [index |-> diskIndex, noteIdMap |-> diskMap] } :
    \A n \in Ids, txt \in NoteTexts :
      LET r == AddNoteToIndex(st.index, st.noteIdMap, n, txt[1], txt[2], TRUE)
      IN ~r.threw => AddedExactlyOne(st.index, st.noteIdMap, n, r)

\* a pass has added one note to an index that held another note, and is
\* writing the mapping
C27_Witness ==
  /\ pc = "writeMap"
  /\ processedCount = 1
  /\ index = Cardinality(DOMAIN noteIdMap)
  /\ index >= 2
  /\ (index - 1) \in DOMAIN noteIdMap
  /\ log.ok # {}

\* C28: a note that is in the trash and has an entry in the mapping file
\* keeps an entry on every step; and no step takes the last entry of a note
\* out of the mapping file unless the running pass has fetched that note.
InBatch(n) == \E k \in 1..Len(modifiedNotes) : modifiedNotes[k].id = n

C28_DeletionsNotPropagated ==
  [][ \A n \in Ids :
        /\ (db[n].trashed /\ db'[n].trashed /\ IndexedOnDisk(n))
             => IndexedOnDisk(n)'
        /\ (IndexedOnDisk(n) /\ ~IndexedOnDisk(n)') => InBatch(n)
    ]_vars

\* C29: while the service runs, whatever watcher errors there were, exactly
\* one poll interval is armed, the one the handle names, and a poll tick can
\* run the version check; and the step of a watcher error, which replaces the
\* interval, leaves the pass, the flags, the timer, the metadata, the files
\* and the watcher as they were.
C29_WatcherErrorKeepsPolling ==
  [][ /\ up => /\ proc.intervals = {proc.pollInterval}
               /\ proc.pollInterval # 0
               /\ ENABLED PollTick
      /\ (up /\ up' /\ proc'.pollInterval # proc.pollInterval) =>
           /\ UNCHANGED << isIndexing, dbChangeDetected, pendingUpdateTimeout,
                           timers, metadata, diskVars, passVars, watchPending >>
           /\ proc'.fileWatcher = proc.fileWatcher
           /\ proc'.intervals = {proc'.pollInterval}
    ]_vars

\* the watcher has reported an error while a pass was running; the interval
\* has been replaced and the pass goes on
C29_Witness ==
  /\ up
  /\ proc.pollInterval = 2
  /\ proc.intervals = {2}
  /\ isIndexing
  /\ pc = "embed"

====
